---- MODULE Spec2Model ----
(***************************************************************************)
(* Packed-BCD codec and Format 6 record parser of src/src/main.rs.         *)
(*                                                                         *)
(* Strings are sequences of Unicode code points, byte slices are sequences *)
(* of integers 0..255.  A call either returns a value or panics (unwrap on *)
(* None / Err, index or slice out of bounds); an outcome is the record     *)
(*   [kind |-> "ok" | "panic", val |-> value, msg |-> panic reason].       *)
(* None of the functions of main.rs returns a Result, so no outcome of     *)
(* kind "err" is ever produced by the code.                                *)
(***************************************************************************)
EXTENDS Integers, Sequences, FiniteSets, TLC

VARIABLES
    op,           \* codec harness: which call is made ("encode", "decode", "roundtrip", "none")
    digits,       \* encode_pack_bcd's argument (a string)
    encoded,      \* decode_pack_bcd's first argument (a byte slice)
    digit_count,  \* decode_pack_bcd's second argument
    cpc,          \* codec harness position: "ready" | "done" | "idle"
    outcome,      \* outcome of the codec call
    raw,          \* parse_format6's argument
    idx,          \* parse_format6's read cursor (0-based, as in the code)
    pc,           \* parse_format6's position: the next field, "build", "done", "panicked", "idle"
    rec,          \* parse_format6's locals assigned so far (name -> value)
    log,          \* the buffer reads made so far: <<field, first index, bytes, digits>>
    result        \* outcome of parse_format6

cvars == <<op, digits, encoded, digit_count, cpc, outcome>>
pvars == <<raw, idx, pc, rec, log, result>>
vars == <<op, digits, encoded, digit_count, cpc, outcome, raw, idx, pc, rec, log, result>>

----------------------------------------------------------------------------
(* Bounds of the model *)

MaxDigits == 4
MaxBytes == 2
MaxRawLen == 43

----------------------------------------------------------------------------
(* Outcomes *)

Ok(v) == [kind |-> "ok", val |-> v, msg |-> ""]
Panic(m) == [kind |-> "panic", val |-> <<>>, msg |-> m]
NoOutcome == [kind |-> "none", val |-> <<>>, msg |-> ""]

None == -1

----------------------------------------------------------------------------
(* u8 arithmetic *)

Shr4(b) == b \div 16
Shl4(b) == (b * 16) % 256

RECURSIVE BitAnd(_, _)
BitAnd(a, b) ==
    IF a = 0 \/ b = 0 THEN 0
    ELSE (IF a % 2 = 1 /\ b % 2 = 1 THEN 1 ELSE 0) + 2 * BitAnd(a \div 2, b \div 2)

RECURSIVE BitOr(_, _)
BitOr(a, b) ==
    IF a = 0 THEN b
    ELSE IF b = 0 THEN a
    ELSE (IF a % 2 = 1 \/ b % 2 = 1 THEN 1 ELSE 0) + 2 * BitOr(a \div 2, b \div 2)

----------------------------------------------------------------------------
(* char::from_digit(n, 10) and char::to_digit(10) *)

from_digit(n) == IF n < 10 THEN 48 + n ELSE None
to_digit(c) == IF c >= 48 /\ c <= 57 THEN c - 48 ELSE None

IsDigitChar(c) == c \in 48..57
IsDigitString(s) == \A i \in 1..Len(s) : IsDigitChar(s[i])

Take(s, n) == IF n >= Len(s) THEN s ELSE SubSeq(s, 1, n)

----------------------------------------------------------------------------
(* decode_pack_bcd *)

HighNibbleNoShift(b) == BitAnd(b, 15)
HighNibble(b) == BitAnd(Shr4(b), 15)
LowNibble(b) == BitAnd(b, 15)

\* the for loop: two pushes per byte, each unwrapping from_digit
RECURSIVE DecodeLoop(_, _, _)
DecodeLoop(bytes, i, acc) ==
    IF i > Len(bytes) THEN Ok(acc)
    ELSE LET high == HighNibble(bytes[i])
             low == LowNibble(bytes[i])
         IN IF from_digit(high) = None THEN Panic("unwrap on None")
            ELSE IF from_digit(low) = None THEN Panic("unwrap on None")
            ELSE DecodeLoop(bytes, i + 1, acc \o <<from_digit(high), from_digit(low)>>)

decode_pack_bcd(bytes, count) ==
    LET r == DecodeLoop(bytes, 1, <<>>)
    IN IF r.kind = "ok" THEN Ok(Take(r.val, count)) ELSE r

----------------------------------------------------------------------------
(* encode_pack_bcd *)

PadNibble == 15

PackByteSwapped(high, low) == BitOr(Shl4(low), high)
PackByte(high, low) == BitOr(Shl4(high), low)

\* the while-let loop over the lazily mapped iterator: to_digit is unwrapped
\* when the character is pulled
RECURSIVE EncodeLoop(_, _, _)
EncodeLoop(s, i, acc) ==
    IF i > Len(s) THEN Ok(acc)
    ELSE IF to_digit(s[i]) = None THEN Panic("unwrap on None")
    ELSE LET high == to_digit(s[i])
         IN IF i + 1 > Len(s)
            THEN EncodeLoop(s, i + 2, Append(acc, PackByte(high, PadNibble)))
            ELSE IF to_digit(s[i + 1]) = None THEN Panic("unwrap on None")
            ELSE EncodeLoop(s, i + 2, Append(acc, PackByte(high, to_digit(s[i + 1]))))

encode_pack_bcd(s) == EncodeLoop(s, 1, <<>>)

\* test_encoding_performance, lines 221-222: encode, then decode with the
\* string's length
RoundTrip(s) ==
    LET e == encode_pack_bcd(s)
    IN IF e.kind = "ok" THEN decode_pack_bcd(e.val, Len(s)) ELSE e

----------------------------------------------------------------------------
(* Inputs of the codec calls *)

\* '/', '0', '1', '9', ':', 'a'
CharVals == {47, 48, 49, 57, 58, 97}

NibbleVals == {0, 1, 9, 10, 15}
ByteVals == {h * 16 + l : h \in NibbleVals, l \in NibbleVals}

SeqsUpTo(S, n) == UNION {[1..k -> S] : k \in 0..n}

Strings == SeqsUpTo(CharVals, MaxDigits)
ByteSeqs == SeqsUpTo(ByteVals, MaxBytes)

ParserIdle ==
    /\ raw = <<>>
    /\ idx = 0
    /\ pc = "idle"
    /\ rec = <<>>
    /\ log = <<>>
    /\ result = NoOutcome

InitCodec ==
    /\ op \in {"encode", "decode", "roundtrip"}
    /\ digits \in (IF op = "decode" THEN {<<>>} ELSE Strings)
    /\ encoded \in (IF op = "decode" THEN ByteSeqs ELSE {<<>>})
    /\ digit_count \in (IF op = "decode" THEN 0..(2 * MaxBytes + 2) ELSE {0})
    /\ cpc = "ready"
    /\ outcome = NoOutcome
    /\ ParserIdle

CallEncode ==
    /\ cpc = "ready"
    /\ op = "encode"
    /\ outcome' = encode_pack_bcd(digits)
    /\ cpc' = "done"
    /\ UNCHANGED <<op, digits, encoded, digit_count>>
    /\ UNCHANGED pvars

CallDecode ==
    /\ cpc = "ready"
    /\ op = "decode"
    /\ outcome' = decode_pack_bcd(encoded, digit_count)
    /\ cpc' = "done"
    /\ UNCHANGED <<op, digits, encoded, digit_count>>
    /\ UNCHANGED pvars

CallRoundTrip ==
    /\ cpc = "ready"
    /\ op = "roundtrip"
    /\ outcome' = RoundTrip(digits)
    /\ cpc' = "done"
    /\ UNCHANGED <<op, digits, encoded, digit_count>>
    /\ UNCHANGED pvars

NextCodec == CallEncode \/ CallDecode \/ CallRoundTrip

SpecCodec == InitCodec /\ [][NextCodec]_vars

----------------------------------------------------------------------------
(* Library functions used by parse_format6 *)

\* u32::MAX is 4294967295 = 10 * U32MaxDiv10 + 5
U32MaxDiv10 == 429496729

\* the checked multiply-and-add of str::parse::<u32> over the digits; the
\* fields parsed here have at most 8 digits, so acc stays below 10^8
RECURSIVE ParseDigits(_, _, _)
ParseDigits(s, i, acc) ==
    IF i > Len(s) THEN Ok(acc)
    ELSE IF ~IsDigitChar(s[i]) THEN Panic("unwrap on Err")
    ELSE IF acc > U32MaxDiv10 \/ (acc = U32MaxDiv10 /\ s[i] - 48 > 5)
         THEN Panic("unwrap on Err")
    ELSE ParseDigits(s, i + 1, acc * 10 + (s[i] - 48))

\* str::parse::<u32>: an optional '+', then one or more decimal digits, the
\* value at most u32::MAX
parse_u32(s) ==
    LET body == IF Len(s) > 0 /\ s[1] = 43 THEN SubSeq(s, 2, Len(s)) ELSE s
    IN IF body = <<>> THEN Panic("unwrap on Err") ELSE ParseDigits(body, 1, 0)

IsCont(b) == b >= 128 /\ b <= 191

\* str::from_utf8: the code points of a well-formed UTF-8 byte sequence
\* (shortest form, no surrogates, at most U+10FFFF), an error otherwise
RECURSIVE Utf8Loop(_, _, _)
Utf8Loop(b, i, acc) ==
    LET n == Len(b)
        c1 == IF i + 1 <= n THEN b[i + 1] ELSE None
        c2 == IF i + 2 <= n THEN b[i + 2] ELSE None
        c3 == IF i + 3 <= n THEN b[i + 3] ELSE None
        Bad == Panic("unwrap on Err")
    IN IF i > n THEN Ok(acc)
       ELSE IF b[i] <= 127 THEN Utf8Loop(b, i + 1, Append(acc, b[i]))
       ELSE IF b[i] >= 194 /\ b[i] <= 223
            THEN IF IsCont(c1)
                 THEN Utf8Loop(b, i + 2, Append(acc, (b[i] - 192) * 64 + (c1 - 128)))
                 ELSE Bad
       ELSE IF b[i] >= 224 /\ b[i] <= 239
            THEN IF /\ IsCont(c1)
                    /\ IsCont(c2)
                    /\ (b[i] = 224 => c1 >= 160)
                    /\ (b[i] = 237 => c1 <= 159)
                 THEN Utf8Loop(b, i + 3,
                          Append(acc, (b[i] - 224) * 4096 + (c1 - 128) * 64 + (c2 - 128)))
                 ELSE Bad
       ELSE IF b[i] >= 240 /\ b[i] <= 244
            THEN IF /\ IsCont(c1)
                    /\ IsCont(c2)
                    /\ IsCont(c3)
                    /\ (b[i] = 240 => c1 >= 144)
                    /\ (b[i] = 244 => c1 <= 143)
                 THEN Utf8Loop(b, i + 4,
                          Append(acc, (b[i] - 240) * 262144 + (c1 - 128) * 4096
                                      + (c2 - 128) * 64 + (c3 - 128)))
                 ELSE Bad
       ELSE Bad

from_utf8(b) == Utf8Loop(b, 1, <<>>)

\* char::is_whitespace: the Unicode White_Space property
White_Space ==
    (9..13) \cup {32, 133, 160, 5760} \cup (8192..8202) \cup {8232, 8233, 8239, 8287, 12288}

is_whitespace(c) == c \in White_Space

\* the longest suffix of characters of W removed
RECURSIVE TrimEndIn(_, _)
TrimEndIn(s, W) ==
    IF s # <<>> /\ s[Len(s)] \in W THEN TrimEndIn(SubSeq(s, 1, Len(s) - 1), W) ELSE s

\* str::trim_end
trim_end_matches_space(s) == TrimEndIn(s, {32})
trim_end(s) == TrimEndIn(s, White_Space)

----------------------------------------------------------------------------
(* parse_format6: one step per field, in the order of the code *)

\* raw[idx]
ReadByte == IF idx < Len(raw) THEN Ok(raw[idx + 1]) ELSE Panic("index out of bounds")

\* [ raw[idx], raw[idx+1] ]
ReadPair ==
    IF idx + 1 < Len(raw) THEN Ok(<<raw[idx + 1], raw[idx + 2]>>)
    ELSE Panic("index out of bounds")

\* &raw[idx..idx+w]
ReadSlice(w) ==
    IF idx + w <= Len(raw) THEN Ok(SubSeq(raw, idx + 1, idx + w))
    ELSE Panic("range end index out of range")

\* decode_pack_bcd(&raw[idx..idx+w], n)
ReadBcd(w, n) ==
    LET sl == ReadSlice(w)
    IN IF sl.kind = "ok" THEN decode_pack_bcd(sl.val, n) ELSE sl

\* decode_pack_bcd(&raw[idx..idx+w], n), then s.parse::<u32>().unwrap()
ReadBcdU32(w, n) ==
    LET s == ReadBcd(w, n)
    IN IF s.kind = "ok" THEN parse_u32(s.val) ELSE s

\* str::from_utf8(&raw[idx..idx+w]).unwrap().trim_end().to_string()
ReadText(w) ==
    LET sl == ReadSlice(w)
        s == IF sl.kind = "ok" THEN from_utf8(sl.val) ELSE sl
    IN IF s.kind = "ok" THEN Ok(trim_end(s.val)) ELSE s

\* A field's read r either panics, or binds the local, and the cursor moves
\* by adv; the read of `bytes` bytes at the cursor is logged.
Step(r, field, bytes, ndigits, adv, next) ==
    IF r.kind = "ok"
    THEN /\ rec' = rec @@ (field :> r.val)
         /\ log' = Append(log, [field |-> field, at |-> idx, bytes |-> bytes,
                                digits |-> ndigits])
         /\ idx' = idx + adv
         /\ pc' = next
         /\ UNCHANGED <<raw, result>>
    ELSE /\ pc' = "panicked"
         /\ result' = r
         /\ UNCHANGED <<raw, idx, rec, log>>

ParseEscCode ==
    /\ pc = "esc_code"
    /\ Step(ReadByte, "esc_code", 1, 0, 1, "info_length")
    /\ UNCHANGED cvars

ParseInfoLength ==
    /\ pc = "info_length"
    /\ Step(ReadBcdU32(2, 4), "info_length", 2, 4, 2, "business_type")
    /\ UNCHANGED cvars

ParseBusinessType ==
    /\ pc = "business_type"
    /\ Step(ReadBcd(1, 2), "business_type", 1, 2, 1, "format_code")
    /\ UNCHANGED cvars

ParseFormatCode ==
    /\ pc = "format_code"
    /\ Step(ReadBcd(1, 2), "format_code", 1, 2, 1, "version")
    /\ UNCHANGED cvars

ParseVersionNoAdvance ==
    /\ pc = "version"
    /\ Step(ReadBcd(1, 2), "version", 1, 2, 0, "transmission_sn")
    /\ UNCHANGED cvars

ParseVersion ==
    /\ pc = "version"
    /\ Step(ReadBcd(1, 2), "version", 1, 2, 1, "transmission_sn")
    /\ UNCHANGED cvars

ParseTransmissionSn ==
    /\ pc = "transmission_sn"
    /\ Step(ReadBcd(4, 8), "transmission_sn", 4, 8, 4, "stock_code")
    /\ UNCHANGED cvars

ParseStockCode ==
    /\ pc = "stock_code"
    /\ Step(ReadText(6), "stock_code", 6, 0, 6, "matching_time")
    /\ UNCHANGED cvars

ParseMatchingTime ==
    /\ pc = "matching_time"
    /\ Step(ReadBcd(6, 12), "matching_time", 6, 12, 6, "disclosed_item_remarks")
    /\ UNCHANGED cvars

ParseDisclosedItemRemarks ==
    /\ pc = "disclosed_item_remarks"
    /\ Step(ReadByte, "disclosed_item_remarks", 1, 0, 1, "rise_fall_remarks")
    /\ UNCHANGED cvars

ParseRiseFallRemarks ==
    /\ pc = "rise_fall_remarks"
    /\ Step(ReadByte, "rise_fall_remarks", 1, 0, 1, "status_remarks")
    /\ UNCHANGED cvars

ParseStatusRemarks ==
    /\ pc = "status_remarks"
    /\ Step(ReadByte, "status_remarks", 1, 0, 1, "accumulative_volume")
    /\ UNCHANGED cvars

ParseAccumulativeVolume ==
    /\ pc = "accumulative_volume"
    /\ Step(ReadBcdU32(4, 8), "accumulative_volume", 4, 8, 4, "price")
    /\ UNCHANGED cvars

ParsePrice ==
    /\ pc = "price"
    /\ Step(ReadBcd(5, 9), "price", 5, 9, 5, "volume")
    /\ UNCHANGED cvars

ParseVolume ==
    /\ pc = "volume"
    /\ Step(ReadBcd(4, 8), "volume", 4, 8, 4, "checksum")
    /\ UNCHANGED cvars

ParseChecksumNoAdvance ==
    /\ pc = "checksum"
    /\ Step(ReadByte, "checksum", 1, 0, 0, "terminal_code")
    /\ UNCHANGED cvars

ParseChecksum ==
    /\ pc = "checksum"
    /\ Step(ReadByte, "checksum", 1, 0, 1, "terminal_code")
    /\ UNCHANGED cvars

ParseTerminalCode ==
    /\ pc = "terminal_code"
    /\ Step(ReadPair, "terminal_code", 2, 0, 0, "build")
    /\ UNCHANGED cvars

\* lines 128 and 138-154: the record is built from the locals
Format6Record ==
    [esc_code |-> rec["esc_code"],
     info_length |-> rec["info_length"],
     business_type |-> rec["business_type"],
     format_code |-> rec["format_code"],
     version |-> rec["version"],
     transmission_sn |-> rec["transmission_sn"],
     stock_code |-> rec["stock_code"],
     matching_time |-> rec["matching_time"],
     disclosed_item_remarks |-> rec["disclosed_item_remarks"],
     rise_fall_remarks |-> rec["rise_fall_remarks"],
     status_remarks |-> rec["status_remarks"],
     accumulative_volume |-> rec["accumulative_volume"],
     real_time_quotes |-> <<[price |-> rec["price"], volume |-> rec["volume"]]>>,
     checksum |-> rec["checksum"],
     terminal_code |-> rec["terminal_code"]]

Build ==
    /\ pc = "build"
    /\ result' = Ok(Format6Record)
    /\ pc' = "done"
    /\ UNCHANGED <<raw, idx, rec, log>>
    /\ UNCHANGED cvars

----------------------------------------------------------------------------
(* Inputs of parse_format6 *)

\* the buffer of test_parse_format6
Template ==
    <<27, 0, 71, 1, 6, 4, 0, 0, 0, 1,
      50, 51, 51, 48, 32, 32,
      9, 48, 21, 18, 52, 86,
      137, 0, 128,
      0, 0, 18, 52,
      0, 18, 52, 86, 112,
      0, 0, 1, 0,
      90, 13, 10>>

\* tab, space, 'A', and the two bytes of U+00A0
StockByteVals == {9, 32, 65, 194, 160}

\* the test buffer cut or zero-extended to n bytes
Resized(n) == [i \in 1..n |-> IF i <= Len(Template) THEN Template[i] ELSE 0]

Truncations == {Resized(n) : n \in 0..MaxRawLen}

StockVariants ==
    {[i \in 1..Len(Template) |-> IF i \in 11..16 THEN s[i - 10] ELSE Template[i]] :
        s \in [1..6 -> StockByteVals]}

ByteVariants == {[Template EXCEPT ![i] = v] : i \in 1..Len(Template), v \in ByteVals}

Fills == {[i \in 1..n |-> v] : n \in 0..MaxRawLen, v \in ByteVals}

RawInputs == Truncations \cup StockVariants \cup ByteVariants \cup Fills

CodecIdle ==
    /\ op = "none"
    /\ digits = <<>>
    /\ encoded = <<>>
    /\ digit_count = 0
    /\ cpc = "idle"
    /\ outcome = NoOutcome

InitParse ==
    /\ raw \in RawInputs
    /\ idx = 0
    /\ pc = "esc_code"
    /\ rec = <<>>
    /\ log = <<>>
    /\ result = NoOutcome
    /\ CodecIdle

NextParse ==
    \/ ParseEscCode
    \/ ParseInfoLength
    \/ ParseBusinessType
    \/ ParseFormatCode
    \/ ParseVersion
    \/ ParseTransmissionSn
    \/ ParseStockCode
    \/ ParseMatchingTime
    \/ ParseDisclosedItemRemarks
    \/ ParseRiseFallRemarks
    \/ ParseStatusRemarks
    \/ ParseAccumulativeVolume
    \/ ParsePrice
    \/ ParseVolume
    \/ ParseChecksum
    \/ ParseTerminalCode
    \/ Build

SpecParse == InitParse /\ [][NextParse]_vars

----------------------------------------------------------------------------
(* Properties of the codec, checked under SpecCodec *)

Even(n) == n % 2 = 0

\* C1: a round trip of an even-length string of '0'-'9' (the empty string
\* included) returns exactly that string, leading zeros included.
C1_EvenRoundTrip ==
    (cpc = "done" /\ op = "roundtrip" /\ IsDigitString(digits) /\ Even(Len(digits)))
        => outcome = Ok(digits)

\* an even-length string with a leading zero has been round-tripped
C1_Witness ==
    /\ cpc = "done"
    /\ op = "roundtrip"
    /\ IsDigitString(digits)
    /\ Len(digits) >= 2
    /\ Even(Len(digits))
    /\ digits[1] = 48
    /\ digits[2] # 48
    /\ outcome = Ok(digits)

\* C2: a round trip of an odd-length string of '0'-'9' completes and returns
\* exactly that string.
C2_OddRoundTrip ==
    (cpc = "done" /\ op = "roundtrip" /\ IsDigitString(digits) /\ ~Even(Len(digits)))
        => outcome = Ok(digits)

\* the nibble of bytes b that digit k (0-based) stands for
NibbleAt(b, k) ==
    IF Even(k) THEN (b[(k \div 2) + 1] \div 16) % 16 ELSE b[(k \div 2) + 1] % 16

\* C3: for any bytes and digit_count <= 2*len, decode returns digit_count
\* characters, each the decimal digit '0'-'9' of its nibble (high nibble of
\* byte k/2 for even k, low nibble for odd k).
C3_DecodeAnyBytes ==
    (cpc = "done" /\ op = "decode" /\ digit_count <= 2 * Len(encoded))
        => /\ outcome.kind = "ok"
           /\ Len(outcome.val) = digit_count
           /\ \A k \in 0..(digit_count - 1) :
                /\ outcome.val[k + 1] \in 48..57
                /\ outcome.val[k + 1] - 48 = NibbleAt(encoded, k)

\* C4: encode of a string of '0'-'9' returns ceil(len/2) bytes, byte i made
\* of digit 2i (high nibble) and digit 2i+1 (low nibble), the low nibble of
\* the last byte being 0xF when the length is odd; "" encodes to no bytes.
C4_EncodeLayout ==
    (cpc = "done" /\ op = "encode" /\ IsDigitString(digits))
        => /\ outcome.kind = "ok"
           /\ Len(outcome.val) = (Len(digits) + 1) \div 2
           /\ \A i \in 0..(Len(outcome.val) - 1) :
                /\ outcome.val[i + 1] \div 16 = digits[2 * i + 1] - 48
                /\ outcome.val[i + 1] % 16 =
                       (IF 2 * i + 2 <= Len(digits) THEN digits[2 * i + 2] - 48 ELSE 15)

\* an odd-length string of at least three digits has been encoded, its last
\* byte padded with 0xF
C4_Witness ==
    /\ cpc = "done"
    /\ op = "encode"
    /\ IsDigitString(digits)
    /\ Len(digits) >= 3
    /\ ~Even(Len(digits))
    /\ outcome.kind = "ok"
    /\ Len(outcome.val) = (Len(digits) + 1) \div 2
    /\ outcome.val[Len(outcome.val)] % 16 = 15

\* C9: encode of a string with a character outside '0'-'9' returns an
\* explicit InvalidDigitError failure result: no abort, no bytes.
C9_EncodeInvalidDigit ==
    (cpc = "done" /\ op = "encode" /\ ~IsDigitString(digits))
        => (outcome.kind = "err" /\ outcome.msg = "InvalidDigitError")

\* C10: decode with digit_count > 2*len fails with a LengthError and never
\* returns a string shorter than digit_count.
C10_DecodeLengthError ==
    (cpc = "done" /\ op = "decode" /\ digit_count > 2 * Len(encoded))
        => (outcome.kind = "err" /\ outcome.msg = "LengthError")

----------------------------------------------------------------------------
(* Properties of parse_format6, checked under SpecParse *)

Finished == pc \in {"done", "panicked"}

OutOfInput ==
    /\ result.kind = "panic"
    /\ result.msg \in {"index out of bounds", "range end index out of range"}

\* C5: a buffer shorter than 35 bytes ends in a TruncatedInputError failure
\* result (no panic, no record), and a buffer of at least 35 bytes does not
\* fail for lack of input.
C5_Truncation ==
    Finished =>
        /\ Len(raw) < 35 => (result.kind = "err" /\ result.msg = "TruncatedInputError")
        /\ Len(raw) >= 35 => ~OutOfInput

\* the buffer indices (0-based) read so far
IndicesRead == UNION {e.at..(e.at + e.bytes - 1) : e \in {log[k] : k \in 1..Len(log)}}

RECURSIVE BytesRead(_)
BytesRead(k) == IF k = 0 THEN 0 ELSE BytesRead(k - 1) + log[k].bytes

\* C6 as stated: a successful parse consumes 35 bytes in total and the
\* highest buffer index read is 34.
C6_Consumes35 ==
    pc = "done" =>
        /\ BytesRead(Len(log)) = 35
        /\ IndicesRead = 0..34

\* C6 as amended: a successful parse consumes 41 bytes in total
\* (1 + 2+1+1+1+4 + 6+6+1+1+1+4 + 5+4 + 1 + 2), each index 0..40 read, the
\* highest index read being 40.
C6_Consumes41 ==
    pc = "done" =>
        /\ BytesRead(Len(log)) = 1 + (2+1+1+1+4) + (6+6+1+1+1+4) + (5+4) + 1 + 2
        /\ BytesRead(Len(log)) = 41
        /\ Cardinality(IndicesRead) = 41
        /\ IndicesRead = 0..40
        /\ result.kind = "ok"

\* a buffer longer than the record has been parsed to the end
C6_Witness ==
    /\ pc = "done"
    /\ result.kind = "ok"
    /\ Len(raw) > 41
    /\ Len(log) = 16

\* the layout the claim gives: field, bytes, digits
Layout ==
    <<<<"esc_code", 1, 0>>, <<"info_length", 2, 4>>, <<"business_type", 1, 2>>,
      <<"format_code", 1, 2>>, <<"version", 1, 2>>, <<"transmission_sn", 4, 8>>,
      <<"stock_code", 6, 0>>, <<"matching_time", 6, 12>>,
      <<"disclosed_item_remarks", 1, 0>>, <<"rise_fall_remarks", 1, 0>>,
      <<"status_remarks", 1, 0>>, <<"accumulative_volume", 4, 8>>,
      <<"price", 5, 9>>, <<"volume", 4, 8>>, <<"checksum", 1, 0>>,
      <<"terminal_code", 2, 0>>>>

\* the k-th read is the k-th field of the layout, with its width and digit
\* count, and starts where the previous read ended (0 for the first)
ReadsInOrder ==
    /\ Len(log) <= Len(Layout)
    /\ Len(log) = 0 => idx = 0
    /\ \A k \in 1..Len(log) :
          /\ <<log[k].field, log[k].bytes, log[k].digits>> = Layout[k]
          /\ log[k].at = (IF k = 1 THEN 0 ELSE log[k - 1].at + log[k - 1].bytes)
          /\ log[k].at <= idx
    /\ DOMAIN rec = {log[j].field : j \in 1..Len(log)}
    /\ pc = "done" =>
          /\ Len(log) = Len(Layout)
          /\ result.kind = "ok"
          /\ Len(result.val.real_time_quotes) = 1
          /\ result.val.real_time_quotes[1] =
                 [price |-> rec["price"], volume |-> rec["volume"]]

\* C7: the cursor starts at 0 and never moves back; every read starts at the
\* cursor, is the next field of the layout esc(1) -> info_length(2,4) -> ...
\* -> checksum(1) -> terminal_code(2) with its width and digit count, and
\* starts where the previous read ended, so that no byte is read twice and
\* none is skipped; a finished parse has read all 16 fields and its record
\* holds exactly one quote.
C7_ForwardPass ==
    /\ [](ReadsInOrder)
    /\ [][/\ idx' >= idx
          /\ log' # log => (Len(log') = Len(log) + 1 /\ log'[Len(log')].at = idx)]_vars

\* the buffer of the test has been parsed to the record the test expects
C7_Witness ==
    /\ pc = "done"
    /\ raw = Template
    /\ Len(log) = 16
    /\ result.val.info_length = 47
    /\ result.val.stock_code = <<50, 51, 51, 48>>
    /\ result.val.accumulative_volume = 1234
    /\ result.val.real_time_quotes =
           <<[price |-> <<48, 48, 49, 50, 51, 52, 53, 54, 55>>,
              volume |-> <<48, 48, 48, 48, 48, 49, 48, 48>>]>>
    /\ result.val.terminal_code = <<13, 10>>

\* the 6-byte stock_code field as text
StockField == from_utf8(SubSeq(raw, 11, 16))

\* t is s without its trailing run of characters of W, and nothing else removed
StrippedOf(s, t, W) ==
    \E k \in 0..Len(s) :
        /\ t = SubSeq(s, 1, k)
        /\ \A j \in (k + 1)..Len(s) : s[j] \in W
        /\ k > 0 => s[k] \notin W

\* C8 as stated: the parsed stock_code is the field without its trailing run
\* of space characters (0x20), nothing else being removed.
C8_TrailingSpacesOnly ==
    ("stock_code" \in DOMAIN rec /\ StockField.kind = "ok")
        => StrippedOf(StockField.val, rec["stock_code"], {32})

\* C8 as amended: the parsed stock_code is the field without its trailing
\* run of whitespace characters (Unicode White_Space: space, tab, LF, VT, FF,
\* CR, U+0085, U+00A0, ...), nothing else being removed.
C8_TrailingWhitespace ==
    ("stock_code" \in DOMAIN rec /\ StockField.kind = "ok")
        => StrippedOf(StockField.val, rec["stock_code"],
                      (9..13) \cup {32, 133, 160, 5760} \cup (8192..8202)
                          \cup {8232, 8233, 8239, 8287, 12288})

\* a field with leading and internal whitespace and a trailing run has been
\* parsed: only the trailing run is gone
C8_Witness ==
    /\ "stock_code" \in DOMAIN rec
    /\ StockField.kind = "ok"
    /\ Len(rec["stock_code"]) >= 3
    /\ Len(rec["stock_code"]) < Len(StockField.val)
    /\ rec["stock_code"][1] = 32
    /\ \E j \in 2..(Len(rec["stock_code"]) - 1) : rec["stock_code"][j] = 32

----------------------------------------------------------------------------
(* Both harnesses *)

Init == InitCodec \/ InitParse

Next == NextCodec \/ NextParse

Spec == Init /\ [][Next]_vars

====
